---- MODULE Spec2Model ----
(***************************************************************************)
(* Path Point Decimator (src/Path_point_dicimator.py).                     *)
(*                                                                         *)
(* Two specifications over one set of variables:                           *)
(*   SelSpec  the two keep-set functions applied to drawn inputs           *)
(*            (_compute_keep_indices_step, _compute_keep_indices_distance) *)
(*   Spec     one invocation of PATHDECIMATE_OT_decimate.execute on a      *)
(*            drawn scene, one step per host call.                         *)
(*                                                                         *)
(* Python indices are 0-based; TLA+ sequences are 1-based, so point i of   *)
(* the source is pts[i + 1] here.  Index sets are the source's 0-based     *)
(* sets.  Coordinates and thresholds are integers (a fixed-point unit);    *)
(* `length >= d` is compared through squares.                              *)
(***************************************************************************)
EXTENDS Integers, Sequences, FiniteSets, TLC

VARIABLES
    call,           \* SelSpec: the arguments of the function call
    ret,            \* SelSpec: its return value (NoRet before the call)
    selected,       \* host: context.selected_objects (a set of objects)
    active,         \* host: context.view_layer.objects.active
    omode,          \* host: obj.mode of every object
    curves,         \* host: obj.data.splines of every curve object
    scn,            \* host: scene properties pathdec_mode/step/distance
    pc,             \* execute: position in the handler
    objs,           \* execute: local objs (a sequence)
    oi,             \* execute: index of the current obj in objs
    si,             \* execute: index si of the current spline (0-based)
    delete_set,     \* execute: local delete_set of the current spline
    prev,           \* execute: locals prev_active, prev_mode
    totals,         \* execute: locals total_removed, total_splines
    reports,        \* execute: the self.report calls made, in order
    result,         \* execute: the returned set's element, or NoResult
    hist            \* history: the scene at invocation, failed restoration

vars == <<call, ret, selected, active, omode, curves, scn, pc, objs, oi, si,
          delete_set, prev, totals, reports, result, hist>>

selVars == <<call, ret>>
opVars == <<selected, active, omode, curves, scn, pc, objs, oi, si,
            delete_set, prev, totals, reports, result, hist>>

----------------------------------------------------------------------------
(* Bounds of the model. *)

\* largest point count drawn for the stride function
MaxN == 11
\* largest stride drawn (the smallest drawn is -1, below the clamp)
MaxStep == 4
\* largest point count drawn for the distance function and per scene spline
MaxPts == 5
\* largest threshold drawn (the smallest drawn is -1)
MaxThresh == 3

----------------------------------------------------------------------------
(* Vectors and the world transform. *)

Max(a, b) == IF a >= b THEN a ELSE b

\* Vector subtraction and squared length (mathutils.Vector)
VSub(a, b) == <<a[1] - b[1], a[2] - b[2], a[3] - b[3]>>
Len2(v) == v[1] * v[1] + v[2] * v[2] + v[3] * v[3]

\* v.length >= d, on exact integers
LengthGE(v, d) == d <= 0 \/ Len2(v) >= d * d

\* matrix_world @ v for an affine matrix given by its first three rows
MatVec(M, v) ==
    <<M[1][1] * v[1] + M[1][2] * v[2] + M[1][3] * v[3] + M[1][4],
      M[2][1] * v[1] + M[2][2] * v[2] + M[2][3] * v[3] + M[2][4],
      M[3][1] * v[1] + M[3][2] * v[2] + M[3][3] * v[3] + M[3][4]>>

_get_world_co_from_point(obj, p) ==
    LET co == p.co
        v == IF Len(co) = 4 THEN <<co[1], co[2], co[3]>> ELSE co
    IN  MatVec(obj.matrix_world, v)

----------------------------------------------------------------------------
(* The keep-set functions. *)

\* for i in range(1, n - 1): if i % step == 0: keep.add(i)
RECURSIVE StepLoop(_, _, _, _)
StepLoop(i, n, step, keep) ==
    IF i >= n - 1 THEN keep
    ELSE StepLoop(i + 1, n, step,
                  IF i % step = 0 THEN keep \cup {i} ELSE keep)

\* variant: the stride clamped to 1 instead of 2
step_clamped_to_one(n, step0) ==
    IF n <= 2 THEN 0 .. (n - 1)
    ELSE StepLoop(1, n, Max(1, step0), {0, n - 1})

_compute_keep_indices_step(n, step0) ==
    IF n <= 2 THEN 0 .. (n - 1)
    ELSE LET step == Max(2, step0)
         IN  StepLoop(1, n, step, {0, n - 1})

\* for i in range(1, n - 1): the scan with its two locals keep and last
RECURSIVE DistLoop(_, _, _, _, _, _)
DistLoop(i, obj, pts, dist_thresh, keep, last) ==
    IF i >= Len(pts) - 1 THEN keep
    ELSE LET cur == _get_world_co_from_point(obj, pts[i + 1])
         IN  IF LengthGE(VSub(cur, last), dist_thresh)
             THEN DistLoop(i + 1, obj, pts, dist_thresh, Append(keep, i), cur)
             ELSE DistLoop(i + 1, obj, pts, dist_thresh, keep, last)

SeqToSet(s) == {s[k] : k \in 1 .. Len(s)}

\* variant: the last index is not appended
distance_without_last(obj, pts, dist_thresh) ==
    LET n == Len(pts)
    IN  IF n <= 2 \/ dist_thresh <= 0 THEN 0 .. (n - 1)
        ELSE SeqToSet(DistLoop(1, obj, pts, dist_thresh, <<0>>,
                               _get_world_co_from_point(obj, pts[1])))

\* variant: every visited point becomes the reference (the distance is
\* taken to the immediate predecessor)
RECURSIVE PredecessorLoop(_, _, _, _, _, _)
PredecessorLoop(i, obj, pts, dist_thresh, keep, last) ==
    IF i >= Len(pts) - 1 THEN keep
    ELSE LET cur == _get_world_co_from_point(obj, pts[i + 1])
         IN  PredecessorLoop(i + 1, obj, pts, dist_thresh,
                 IF LengthGE(VSub(cur, last), dist_thresh)
                 THEN Append(keep, i) ELSE keep, cur)

distance_to_predecessor(obj, pts, dist_thresh) ==
    LET n == Len(pts)
    IN  IF n <= 2 \/ dist_thresh <= 0 THEN 0 .. (n - 1)
        ELSE SeqToSet(Append(
                 PredecessorLoop(1, obj, pts, dist_thresh, <<0>>,
                     _get_world_co_from_point(obj, pts[1])), n - 1))

\* variant: the reference is never updated (the distance is taken to
\* point 0)
RECURSIVE FirstLoop(_, _, _, _, _, _)
FirstLoop(i, obj, pts, dist_thresh, keep, last) ==
    IF i >= Len(pts) - 1 THEN keep
    ELSE LET cur == _get_world_co_from_point(obj, pts[i + 1])
         IN  FirstLoop(i + 1, obj, pts, dist_thresh,
                 IF LengthGE(VSub(cur, last), dist_thresh)
                 THEN Append(keep, i) ELSE keep, last)

distance_to_first(obj, pts, dist_thresh) ==
    LET n == Len(pts)
    IN  IF n <= 2 \/ dist_thresh <= 0 THEN 0 .. (n - 1)
        ELSE SeqToSet(Append(
                 FirstLoop(1, obj, pts, dist_thresh, <<0>>,
                     _get_world_co_from_point(obj, pts[1])), n - 1))

_compute_keep_indices_distance(obj, pts, dist_thresh) ==
    LET n == Len(pts)
    IN  IF n <= 2 \/ dist_thresh <= 0 THEN 0 .. (n - 1)
        ELSE LET keep == DistLoop(1, obj, pts, dist_thresh, <<0>>,
                                  _get_world_co_from_point(obj, pts[1]))
             IN  SeqToSet(Append(keep, n - 1))

----------------------------------------------------------------------------
(* SelSpec: the keep-set functions applied to drawn inputs. *)

NoRet == [done |-> FALSE]
NoCall == [fn |-> "none"]

\* matrix_world values: the identity, and a scale/shear with a translation
Identity == <<<<1, 0, 0, 0>>, <<0, 1, 0, 0>>, <<0, 0, 1, 0>>>>
Skewed == <<<<2, 0, 0, 5>>, <<0, 1, 1, -3>>, <<0, 0, 1, 0>>>>
Matrices == {Identity, Skewed}

\* local positions drawn for a point
Positions == {<<0, 0, 0>>, <<1, 0, 0>>, <<3, 0, 0>>, <<1, 2, 2>>}

\* p.co of a Bezier point is (x,y,z); of a NURBS/POLY point (x,y,z,w)
Co(kind, pos) == IF kind = "BEZIER" THEN pos ELSE Append(pos, 7)

\* the worked example: x = 0, 0.1, 1, 1.05, 2 and threshold 0.5,
\* in units of 0.05
ExampleXs == <<0, 2, 20, 21, 40>>
ExampleCall ==
    [fn |-> "distance", obj |-> [matrix_world |-> Identity],
     pts |-> [k \in 1 .. 5 |-> [co |-> <<ExampleXs[k], 0, 0>>]],
     dist_thresh |-> 10]

\* the operator's variables are not used by SelSpec
OpIdle ==
    /\ selected = {}
    /\ active = "None"
    /\ omode = <<>>
    /\ curves = <<>>
    /\ scn = <<>>
    /\ pc = "unused"
    /\ objs = <<>>
    /\ oi = 0
    /\ si = 0
    /\ delete_set = {}
    /\ prev = <<>>
    /\ totals = <<>>
    /\ reports = <<>>
    /\ result = "NoResult"
    /\ hist = <<>>

\* a call of the stride function, n and step drawn
StepCall ==
    \E n \in 0 .. MaxN, step \in (-1) .. MaxStep :
        call = [fn |-> "step", n |-> n, step |-> step]

\* a call of the distance function: the points' kind and positions, the
\* object's matrix_world and the threshold drawn
DistanceCall ==
    \E n \in 0 .. MaxPts :
        \E ps \in [1 .. n -> Positions], M \in Matrices,
           kind \in {"BEZIER", "POLY"}, d \in (-1) .. MaxThresh :
            call = [fn |-> "distance", obj |-> [matrix_world |-> M],
                    pts |-> [k \in 1 .. n |-> [co |-> Co(kind, ps[k])]],
                    dist_thresh |-> d]

SelInit ==
    /\ StepCall \/ DistanceCall \/ call = ExampleCall
    /\ ret = NoRet
    /\ OpIdle

ApplyStep ==
    /\ call.fn = "step"
    /\ ~ret.done
    /\ ret' = [done |-> TRUE,
               keep |-> _compute_keep_indices_step(call.n, call.step)]
    /\ UNCHANGED <<call, opVars>>

ApplyDistance ==
    /\ call.fn = "distance"
    /\ ~ret.done
    /\ ret' = [done |-> TRUE,
               keep |-> _compute_keep_indices_distance(
                            call.obj, call.pts, call.dist_thresh)]
    /\ UNCHANGED <<call, opVars>>

SelNext == ApplyStep \/ ApplyDistance

SelSpec == SelInit /\ [][SelNext]_vars

----------------------------------------------------------------------------
(* The host scene on which execute runs. *)

Objs == {"CurveA", "CurveB", "Mesh"}
NoObj == "None"

\* o.type
ObjType(o) == IF o = "Mesh" THEN "MESH" ELSE "CURVE"
CurveObjs == {o \in Objs : ObjType(o) = "CURVE"}

\* o.matrix_world
ObjMatrix(o) == IF o = "CurveA" THEN Identity ELSE Skewed

\* the order in which context.selected_objects lists the objects
ObjOrder == <<"CurveA", "CurveB", "Mesh">>
IsSelected(o) == o \in selected
SelectedObjects == SelectSeq(ObjOrder, IsSelected)

\* local position of the point at index i of a scene spline: pairs of
\* close points, the pairs far apart
ScenePos(i) == <<4 * (i \div 2) + (i % 2), i % 2, 0>>

\* the selection a point has before the run
PreSelected(presel, i) ==
    CASE presel = "all" -> TRUE
      [] presel = "odd" -> i % 2 = 1
      [] OTHER -> FALSE

\* a Bezier point (bezier_points) and a NURBS/POLY point (points)
BezierPoint(id, i, presel) ==
    [id |-> id, co |-> Co("BEZIER", ScenePos(i)),
     select_control_point |-> PreSelected(presel, i),
     select_left_handle |-> PreSelected(presel, i + 1),
     select_right_handle |-> FALSE]
PlainPoint(id, i, presel) ==
    [id |-> id, co |-> Co("POLY", ScenePos(i)),
     select |-> PreSelected(presel, i)]

\* spline s of object o: n points of the given type
MakeSpline(o, s, type, n, presel) ==
    IF type = "BEZIER"
    THEN [type |-> type, points |-> <<>>,
          bezier_points |->
              [k \in 1 .. n |-> BezierPoint(<<o, s, k - 1>>, k - 1, presel)]]
    ELSE [type |-> type, bezier_points |-> <<>>,
          points |->
              [k \in 1 .. n |-> PlainPoint(<<o, s, k - 1>>, k - 1, presel)]]

\* the curve data drawn for a curve object
Layouts(o) ==
    IF o = "CurveA"
    THEN {<<>>,
          <<MakeSpline(o, 0, "BEZIER", MaxPts, "all")>>,
          <<MakeSpline(o, 0, "POLY", MaxPts, "odd"),
            MakeSpline(o, 1, "BEZIER", 3, "none")>>,
          <<MakeSpline(o, 0, "NURBS", 2, "all"),
            MakeSpline(o, 1, "POLY", MaxPts - 1, "all")>>,
          <<MakeSpline(o, 0, "POLY", 0, "none"),
            MakeSpline(o, 1, "BEZIER", MaxPts - 1, "odd"),
            MakeSpline(o, 2, "NURBS", 1, "all")>>}
    ELSE {<<>>,
          <<MakeSpline(o, 0, "BEZIER", 3, "odd")>>,
          <<MakeSpline(o, 0, "POLY", MaxPts, "all"),
            MakeSpline(o, 1, "BEZIER", MaxPts, "all")>>}

\* the scene properties registered by register(): the strides and the
\* thresholds drawn
SceneSteps == {2, 3}
SceneDistances == {0, 2}
SceneConfigs ==
    {[pathdec_mode |-> "STEP", pathdec_step |-> st, pathdec_distance |-> 0] :
        st \in SceneSteps}
    \cup
    {[pathdec_mode |-> "DIST", pathdec_step |-> 2, pathdec_distance |-> d] :
        d \in SceneDistances}

Modes == {"OBJECT", "EDIT"}

----------------------------------------------------------------------------
(* Helpers of the operator. *)

\* variant: without the fallback to the active object
curve_targets_selected_only ==
    SelectSeq(SelectedObjects, LAMBDA o : ObjType(o) = "CURVE")

\* _curve_targets(context), context being the host variables
_curve_targets ==
    LET sel == SelectSeq(SelectedObjects, LAMBDA o : ObjType(o) = "CURVE")
        ao == active
    IN  IF sel # <<>> THEN sel
        ELSE IF ao # NoObj /\ ObjType(ao) = "CURVE" THEN <<ao>>
        ELSE <<>>

\* pts of a spline: sp.bezier_points or sp.points
SplinePts(sp) == IF sp.type = "BEZIER" THEN sp.bezier_points ELSE sp.points

\* the "clear selection" loop body for one spline
ClearSpline(s) ==
    IF s.type = "BEZIER"
    THEN [s EXCEPT !.bezier_points =
              [k \in DOMAIN s.bezier_points |->
                  [s.bezier_points[k] EXCEPT
                      !.select_control_point = FALSE,
                      !.select_left_handle = FALSE,
                      !.select_right_handle = FALSE]]]
    ELSE [s EXCEPT !.points =
              [k \in DOMAIN s.points |->
                  [s.points[k] EXCEPT !.select = FALSE]]]

\* the "select targets" branch for the spline sp
MarkSpline(sp, indices_to_select) ==
    IF sp.type = "BEZIER"
    THEN [sp EXCEPT !.bezier_points =
              [k \in DOMAIN sp.bezier_points |->
                  IF (k - 1) \in indices_to_select
                  THEN [sp.bezier_points[k] EXCEPT
                           !.select_control_point = TRUE,
                           !.select_left_handle = TRUE,
                           !.select_right_handle = TRUE]
                  ELSE sp.bezier_points[k]]]
    ELSE [sp EXCEPT !.points =
              [k \in DOMAIN sp.points |->
                  IF (k - 1) \in indices_to_select
                  THEN [sp.points[k] EXCEPT !.select = TRUE]
                  ELSE sp.points[k]]]

\* variant: only the target spline's selection is cleared
select_clearing_target_only(obj, spline_index, indices_to_select) ==
    [curves[obj] EXCEPT ![spline_index + 1] =
        MarkSpline(ClearSpline(curves[obj][spline_index + 1]),
                   indices_to_select)]

\* _select_points_in_editmode: the splines of obj.data afterwards
_select_points_in_editmode(obj, spline_index, indices_to_select) ==
    LET cleared == [s \in DOMAIN curves[obj] |-> ClearSpline(curves[obj][s])]
    IN  [cleared EXCEPT ![spline_index + 1] =
            MarkSpline(cleared[spline_index + 1], indices_to_select)]

\* whether curve.delete(type='VERT') removes the point
PointSelected(type, p) ==
    IF type = "BEZIER"
    THEN p.select_control_point \/ p.select_left_handle
         \/ p.select_right_handle
    ELSE p.select

Unselected(type, pts) ==
    SelectSeq(pts, LAMBDA p : ~PointSelected(type, p))

\* _delete_selected_points: the splines of the curve in edit mode after
\* bpy.ops.curve.delete(type='VERT')
_delete_selected_points(splines) ==
    [s \in DOMAIN splines |->
        IF splines[s].type = "BEZIER"
        THEN [splines[s] EXCEPT
                 !.bezier_points = Unselected("BEZIER", @)]
        ELSE [splines[s] EXCEPT
                 !.points = Unselected(splines[s].type, @)]]

\* bpy.ops.object.mode_set(mode=...) with ao the active object: the modes
\* afterwards
mode_set(ao, mode) == [omode EXCEPT ![ao] = mode]

\* the keep set execute computes for the spline sp of obj
KeepFor(obj, sp) ==
    IF scn.pathdec_mode = "STEP"
    THEN _compute_keep_indices_step(Len(SplinePts(sp)), scn.pathdec_step)
    ELSE _compute_keep_indices_distance(
             [matrix_world |-> ObjMatrix(obj)], SplinePts(sp),
             scn.pathdec_distance)

----------------------------------------------------------------------------
(* PATHDECIMATE_OT_decimate.execute, one action per host call.             *)
(* pc: "start", "for_obj", "ensure_object", "enter_edit", "leave_empty",   *)
(* "for_spline", "delete", "leave_edit", "restore", then "done" (the       *)
(* handler returned) or "raised" (a host call's exception left it).        *)

SelIdle ==
    /\ call = NoCall
    /\ ret = NoRet

Init ==
    /\ SelIdle
    /\ selected \in SUBSET Objs
    /\ active \in Objs \cup {NoObj}
    /\ omode \in [Objs -> Modes]
    /\ curves \in [CurveObjs -> UNION {Layouts(o) : o \in CurveObjs}]
    /\ \A o \in CurveObjs : curves[o] \in Layouts(o)
    /\ scn \in SceneConfigs
    /\ pc = "start"
    /\ objs = <<>>
    /\ oi = 0
    /\ si = 0
    /\ delete_set = {}
    /\ prev = [active |-> NoObj, mode |-> "OBJECT"]
    /\ totals = [removed |-> 0, splines |-> 0]
    /\ reports = <<>>
    /\ result = "NoResult"
    /\ hist = [active |-> active, omode |-> omode, curves |-> curves,
               restore_failed |-> FALSE]

\* the current obj of the loop over objs
Obj == objs[oi]

host == <<selected, active, omode, curves, scn>>

\* lines 115-130: resolve the targets; without any, warn and cancel
Begin ==
    /\ pc = "start"
    /\ objs' = _curve_targets
    /\ IF objs' = <<>>
       THEN /\ reports' = Append(reports, [level |-> "WARNING"])
            /\ result' = "CANCELLED"
            /\ pc' = "done"
            /\ UNCHANGED prev
       ELSE /\ prev' = [active |-> active,
                        mode |-> IF active # NoObj THEN omode[active]
                                 ELSE "OBJECT"]
            /\ pc' = "for_obj"
            /\ UNCHANGED <<reports, result>>
    /\ UNCHANGED <<selVars, host, oi, si, delete_set, totals, hist>>

\* lines 133-134: the next obj becomes the active object; after the last
\* one the loop ends
ForObj ==
    /\ pc = "for_obj"
    /\ IF oi < Len(objs)
       THEN /\ oi' = oi + 1
            /\ active' = objs[oi + 1]
            /\ pc' = "ensure_object"
       ELSE /\ pc' = "restore"
            /\ UNCHANGED <<oi, active>>
    /\ UNCHANGED <<selVars, selected, omode, curves, scn, objs, si,
                   delete_set, prev, totals, reports, result, hist>>

\* lines 137-138: mode_set(OBJECT) unless obj is in OBJECT mode already
EnsureObject ==
    /\ pc = "ensure_object"
    /\ omode' = IF omode[Obj] # "OBJECT" THEN mode_set(active, "OBJECT") ELSE omode
    /\ pc' = "enter_edit"
    /\ UNCHANGED <<selVars, selected, active, curves, scn, objs, oi, si,
                   delete_set, prev, totals, reports, result, hist>>

\* lines 141-144: mode_set(EDIT), then the test of crv.splines
EnterEdit ==
    /\ pc = "enter_edit"
    /\ omode' = mode_set(active, "EDIT")
    /\ si' = 0
    /\ pc' = IF curves[Obj] = <<>> THEN "leave_empty" ELSE "for_spline"
    /\ UNCHANGED <<selVars, selected, active, curves, scn, objs, oi,
                   delete_set, prev, totals, reports, result, hist>>

\* variant: an obj without splines is left in edit mode
leave_empty_without_mode_set ==
    /\ pc = "leave_empty"
    /\ pc' = "for_obj"
    /\ UNCHANGED <<selVars, host, objs, oi, si, delete_set, prev, totals,
                   reports, result, hist>>

\* lines 145-146: an obj without splines: mode_set(OBJECT); continue
LeaveEmpty ==
    /\ pc = "leave_empty"
    /\ omode' = mode_set(active, "OBJECT")
    /\ pc' = "for_obj"
    /\ UNCHANGED <<selVars, selected, active, curves, scn, objs, oi, si,
                   delete_set, prev, totals, reports, result, hist>>

\* lines 149-167, 171: the next spline: count it when n <= 2 or nothing
\* is to delete, otherwise select its delete set; after the last spline
\* the loop ends
ForSpline ==
    /\ pc = "for_spline"
    /\ IF si < Len(curves[Obj])
       THEN LET sp == curves[Obj][si + 1]
                n == Len(SplinePts(sp))
                keep == KeepFor(Obj, sp)
                del == {i \in 0 .. (n - 1) : i \notin keep}
            IN  IF n <= 2 \/ del = {}
                THEN /\ totals' = [totals EXCEPT !.splines = @ + 1]
                     /\ si' = si + 1
                     /\ pc' = "for_spline"
                     /\ UNCHANGED <<curves, delete_set>>
                ELSE /\ delete_set' = del
                     /\ curves' = [curves EXCEPT ![Obj] =
                            _select_points_in_editmode(Obj, si, del)]
                     /\ pc' = "delete"
                     /\ UNCHANGED <<totals, si>>
       ELSE /\ pc' = "leave_edit"
            /\ UNCHANGED <<curves, delete_set, totals, si>>
    /\ UNCHANGED <<selVars, selected, active, omode, scn, objs, oi, prev,
                   reports, result, hist>>

\* lines 168-171: delete the selected points of the curve in edit mode
\* and count them
Delete ==
    /\ pc = "delete"
    /\ omode[active] = "EDIT"
    /\ curves' = [curves EXCEPT ![active] = _delete_selected_points(@)]
    /\ totals' = [removed |-> totals.removed + Cardinality(delete_set),
                  splines |-> totals.splines + 1]
    /\ si' = si + 1
    /\ pc' = "for_spline"
    /\ UNCHANGED <<selVars, selected, active, omode, scn, objs, oi,
                   delete_set, prev, reports, result, hist>>

\* lines 174-175: mode_set(OBJECT); crv.update()
LeaveEdit ==
    /\ pc = "leave_edit"
    /\ omode' = mode_set(active, "OBJECT")
    /\ pc' = "for_obj"
    /\ UNCHANGED <<selVars, selected, active, curves, scn, objs, oi, si,
                   delete_set, prev, totals, reports, result, hist>>

\* a host operator called inside the loop raises (RuntimeError): nothing
\* catches it there, so it leaves execute
HostRaises ==
    /\ \/ pc = "ensure_object" /\ omode[Obj] # "OBJECT"
       \/ pc \in {"enter_edit", "leave_empty", "delete", "leave_edit"}
    /\ pc' = "raised"
    /\ UNCHANGED <<selVars, host, objs, oi, si, delete_set, prev, totals,
                   reports, result, hist>>

\* the INFO summary of self.report
Summary ==
    [level |-> "INFO", curves |-> Len(objs), splines |-> totals.splines,
     removed |-> totals.removed]

\* variant: a failing mode_set of the restoration is not caught
restore_propagating ==
    /\ pc = "restore"
    /\ \E ok \in BOOLEAN :
        IF prev.active # NoObj /\ ~ok
        THEN /\ active' = prev.active
             /\ hist' = [hist EXCEPT !.restore_failed = TRUE]
             /\ pc' = "raised"
             /\ UNCHANGED <<omode, reports, result>>
        ELSE /\ active' = IF prev.active # NoObj THEN prev.active
                          ELSE active
             /\ omode' = IF prev.active # NoObj
                         THEN mode_set(prev.active, prev.mode)
                         ELSE omode
             /\ reports' = Append(reports, Summary)
             /\ result' = "FINISHED"
             /\ pc' = "done"
             /\ UNCHANGED hist
    /\ UNCHANGED <<selVars, selected, curves, scn, objs, oi, si,
                   delete_set, prev, totals>>

\* lines 178-189: with a previous active object, make it active again
\* and try mode_set(prev_mode), a failure of which is passed over; then
\* report the summary and return FINISHED
Restore ==
    /\ pc = "restore"
    /\ IF prev.active # NoObj
       THEN /\ active' = prev.active
            /\ \E ok \in BOOLEAN :
                IF ok
                THEN /\ omode' = mode_set(prev.active, prev.mode)
                     /\ UNCHANGED hist
                ELSE /\ hist' = [hist EXCEPT !.restore_failed = TRUE]
                     /\ UNCHANGED omode
       ELSE UNCHANGED <<active, omode, hist>>
    /\ reports' = Append(reports, Summary)
    /\ result' = "FINISHED"
    /\ pc' = "done"
    /\ UNCHANGED <<selVars, selected, curves, scn, objs, oi, si,
                   delete_set, prev, totals>>

Next ==
    \/ Begin
    \/ ForObj
    \/ EnsureObject
    \/ EnterEdit
    \/ LeaveEmpty
    \/ ForSpline
    \/ Delete
    \/ LeaveEdit
    \/ HostRaises
    \/ Restore

Spec == Init /\ [][Next]_vars

----------------------------------------------------------------------------
(* Claims about the keep-set functions (checked under SelSpec). *)

\* the point count of the call
CallN == IF call.fn = "step" THEN call.n ELSE Len(call.pts)

\* world position of the point at 0-based index i of the call
CallPos(i) == MatVec(call.obj.matrix_world,
                     <<call.pts[i + 1].co[1], call.pts[i + 1].co[2],
                       call.pts[i + 1].co[3]>>)

\* squared world distance between the points at indices i and j
CallDist2(i, j) ==
    LET a == CallPos(i)
        b == CallPos(j)
    IN  (a[1] - b[1]) * (a[1] - b[1]) + (a[2] - b[2]) * (a[2] - b[2])
        + (a[3] - b[3]) * (a[3] - b[3])

\* the greatest element of K below i
Below(K, i) == CHOOSE k \in K : k < i /\ \A j \in K : j < i => j <= k

\* C1: the stride function returns all indices when n <= 2, and otherwise
\* {0, n-1} with the interior multiples of s = max(2, step); a step below
\* 2 gives what step 2 gives; n = 10, step = 3 gives {0,3,6,9}.
C1_StrideKeepSet ==
    (ret.done /\ call.fn = "step") =>
        LET n == call.n
            s == IF call.step < 2 THEN 2 ELSE call.step
        IN  /\ n <= 2 => ret.keep = {i \in 0 .. MaxN : i < n}
            /\ n > 2 =>
                 ret.keep = {0, n - 1}
                            \cup {i \in 1 .. (n - 2) : i % s = 0}
            /\ (n > 2 /\ call.step < 2) =>
                 \A i \in 1 .. (n - 2) : (i \in ret.keep) <=> (i % 2 = 0)
            /\ (n = 10 /\ call.step = 3) => ret.keep = {0, 3, 6, 9}

C1_Witness ==
    /\ ret.done
    /\ call.fn = "step"
    /\ call.n = 10
    /\ call.step = 3
    /\ ret.keep = {0, 3, 6, 9}

\* C2: under both policies, for n >= 1 the keep set contains 0 and n-1,
\* holds only indices of [0, n-1], and has at most n elements.
C2_KeepSetShape ==
    (ret.done /\ CallN >= 1) =>
        /\ 0 \in ret.keep
        /\ (CallN - 1) \in ret.keep
        /\ \A i \in ret.keep : 0 <= i /\ i <= CallN - 1
        /\ Cardinality(ret.keep) <= CallN

C2_Witness ==
    /\ ret.done
    /\ call.fn = "distance"
    /\ CallN = 4
    /\ call.dist_thresh = 2
    /\ ret.keep = {0, 3}

\* C3: the distance function returns all indices when n <= 2 or the
\* threshold is <= 0; otherwise index 0 and n-1 are kept and an interior
\* index i is kept iff its point is at least the threshold away from the
\* last kept point before it (not from its immediate predecessor); the
\* worked example gives {0,2,4}.
C3_DistanceKeepSet ==
    (ret.done /\ call.fn = "distance") =>
        LET n == Len(call.pts)
            d == call.dist_thresh
        IN  /\ (n <= 2 \/ d <= 0) => ret.keep = {i \in 0 .. MaxPts : i < n}
            /\ (n > 2 /\ d > 0) =>
                 /\ ret.keep \subseteq 0 .. (n - 1)
                 /\ 0 \in ret.keep
                 /\ (n - 1) \in ret.keep
                 /\ \A i \in 1 .. (n - 2) :
                      (i \in ret.keep) <=>
                          (CallDist2(i, Below(ret.keep, i)) >= d * d)
            /\ call = ExampleCall => ret.keep = {0, 2, 4}

C3_Witness ==
    /\ ret.done
    /\ call = ExampleCall
    /\ ret.keep = {0, 2, 4}

\* C4: for a threshold > 0, two consecutive kept indices are at least the
\* threshold apart unless the pair ends at the forced last index n-1.
C4_KeptSpacing ==
    (ret.done /\ call.fn = "distance" /\ call.dist_thresh > 0) =>
        \A a, b \in ret.keep :
            (/\ a < b
             /\ b # Len(call.pts) - 1
             /\ ~\E k \in ret.keep : a < k /\ k < b)
            => CallDist2(a, b) >= call.dist_thresh * call.dist_thresh

\* two interior points kept, and the last pair closer than the threshold
C4_Witness ==
    /\ ret.done
    /\ call.fn = "distance"
    /\ call.dist_thresh > 0
    /\ Len(call.pts) = 5
    /\ ret.keep = {0, 1, 3, 4}
    /\ CallDist2(3, 4) < call.dist_thresh * call.dist_thresh

----------------------------------------------------------------------------
(* Claims about the operator (checked under Spec). *)

\* the targets of the invocation, as a set
Targets == SeqToSet(objs)

\* no selected object is a curve and the active object is absent or not
\* a curve, at invocation
NoTarget ==
    /\ \A o \in selected : ObjType(o) # "CURVE"
    /\ hist.active = NoObj \/ ObjType(hist.active) # "CURVE"

\* the selected curve objects, or the active curve alone if there is none
ExpectedTargets ==
    IF \E o \in selected : ObjType(o) = "CURVE"
    THEN {o \in selected : ObjType(o) = "CURVE"}
    ELSE {hist.active}

\* C5: without a target the operator warns, returns CANCELLED and changes
\* nothing (active object, modes, selection, points); otherwise the
\* targets are the selected curves, or the active curve alone, and the
\* value the operator returns is FINISHED, never CANCELLED.
C5_TargetResolution ==
    /\ (NoTarget /\ pc # "start") =>
          /\ pc = "done"
          /\ result = "CANCELLED"
          /\ reports = <<[level |-> "WARNING"]>>
          /\ active = hist.active
          /\ omode = hist.omode
          /\ curves = hist.curves
    /\ (~NoTarget /\ pc # "start") =>
          /\ Targets = ExpectedTargets
          /\ Len(objs) = Cardinality(ExpectedTargets)
          /\ result # "CANCELLED"
          /\ \A k \in 1 .. Len(reports) : reports[k].level # "WARNING"
          /\ pc = "done" => result = "FINISHED"

\* cancelled with a mesh selected, active and in edit mode
C5_Witness ==
    /\ pc = "done"
    /\ result = "CANCELLED"
    /\ selected = {"Mesh"}
    /\ active = "Mesh"
    /\ omode["Mesh"] = "EDIT"

\* C6: whenever the operator returns FINISHED, the active object is the
\* object (or the absence of one) that was active before the invocation,
\* and that object is in the mode it was in before.  Stated here for the
\* runs whose restoring mode switch did not fail (a failed one is passed
\* over and leaves the mode unrestored, C7): the claim fails even there.
C6_ActiveStateRestored ==
    (pc = "done" /\ result = "FINISHED" /\ ~hist.restore_failed) =>
        /\ active = hist.active
        /\ hist.active # NoObj =>
               omode[hist.active] = hist.omode[hist.active]

\* C7: a failing mode switch of the restoration is passed over: the
\* handler does not raise, reports no warning, reports the summary and
\* returns FINISHED, and that step leaves points and modes as they were.
C7_RestoreFailureSwallowed ==
    /\ [](hist.restore_failed =>
            /\ pc = "done"
            /\ result = "FINISHED"
            /\ reports = <<Summary>>)
    /\ [][(pc = "restore" /\ hist'.restore_failed) =>
            /\ curves' = curves
            /\ omode' = omode
            /\ totals' = totals]_vars

\* the restoration failed after points were removed
C7_Witness ==
    /\ hist.restore_failed
    /\ pc = "done"
    /\ result = "FINISHED"
    /\ totals.removed > 0
    /\ curves # hist.curves

\* the ids of a spline's points, in order
PointIds(sp) == [k \in 1 .. Len(SplinePts(sp)) |-> SplinePts(sp)[k].id]

\* the ids of the points of the original spline sp0 of o at the indices
\* of its keep set, in the original order (an id's third component is
\* the point's original index)
KeptIds(o, sp0) ==
    LET keep == KeepFor(o, sp0)
    IN  SelectSeq(PointIds(sp0), LAMBDA id : id[3] \in keep)

\* C8: each spline of a target ends the run with exactly the points at
\* the indices of its keep set, in their original order; at any time a
\* spline holds either its original points or those; objects that are
\* not targets are untouched; the delete primitive runs only with a
\* non-empty delete set, the complement of the keep set, and with
\* exactly the delete set's points selected in the whole curve.
C8_ExactRemoval ==
    /\ \A o \in CurveObjs \ Targets : curves[o] = hist.curves[o]
    /\ \A o \in Targets :
          /\ Len(curves[o]) = Len(hist.curves[o])
          /\ \A s \in 1 .. Len(hist.curves[o]) :
                /\ PointIds(curves[o][s]) \in
                       {PointIds(hist.curves[o][s]),
                        KeptIds(o, hist.curves[o][s])}
                /\ (pc = "done" /\ result = "FINISHED") =>
                       PointIds(curves[o][s]) = KeptIds(o, hist.curves[o][s])
    /\ pc = "delete" =>
          LET sp0 == hist.curves[Obj][si + 1]
              n == Len(SplinePts(sp0))
          IN  /\ delete_set # {}
              /\ delete_set = (0 .. (n - 1)) \ KeepFor(Obj, sp0)
              /\ \A s \in 1 .. Len(curves[Obj]) :
                    \A k \in 1 .. Len(SplinePts(curves[Obj][s])) :
                        PointSelected(curves[Obj][s].type,
                                      SplinePts(curves[Obj][s])[k])
                        <=> (s = si + 1 /\ (k - 1) \in delete_set)

\* a finished run on CurveA whose first spline, two selected points, is
\* intact while points of its second spline were removed
C8_Witness ==
    /\ pc = "done"
    /\ result = "FINISHED"
    /\ "CurveA" \in Targets
    /\ Len(hist.curves["CurveA"]) = 2
    /\ hist.curves["CurveA"][1].type = "NURBS"
    /\ Len(curves["CurveA"][1].points) = 2
    /\ Len(curves["CurveA"][2].points)
           < Len(hist.curves["CurveA"][2].points)

\* C9: targets are processed one at a time in the order of objs; points
\* and their selection change only on the active object while it is the
\* current target and in EDIT mode; every target processed so far is in
\* OBJECT mode when the next one is made active and when the restoration
\* starts.
C9_ModeSequencing ==
    /\ []((pc \in {"for_obj", "restore"}) =>
            \A k \in 1 .. oi : omode[objs[k]] = "OBJECT")
    /\ [][/\ curves' # curves =>
                /\ oi >= 1
                /\ active = Obj
                /\ omode[Obj] = "EDIT"
                /\ active' = active
                /\ omode' = omode
                /\ \A o \in CurveObjs \ {Obj} : curves'[o] = curves[o]
          /\ oi' # oi => (oi' = oi + 1 /\ active' = objs[oi'])
          /\ active' # active => (oi' = oi + 1 \/ pc = "restore")]_vars

\* the second target is in edit mode with points selected for deletion,
\* the first one, which was in edit mode and has no splines, in OBJECT mode
C9_Witness ==
    /\ pc = "delete"
    /\ oi = 2
    /\ hist.curves[objs[1]] = <<>>
    /\ hist.omode[objs[1]] = "EDIT"
    /\ omode[objs[1]] = "OBJECT"
    /\ omode[objs[2]] = "EDIT"

\* C10: when a host operation raises in the middle of the run, the
\* active object is the one that was active before the invocation, in
\* the mode it had, and no target is left in edit mode by the run.
\* Stated here for the invocations that had an active object (without
\* one the active object is not restored on the normal path either, C6).
C10_RestoredOnAllExitPaths ==
    (pc = "raised" /\ hist.active # NoObj) =>
        /\ active = hist.active
        /\ omode[hist.active] = hist.omode[hist.active]
        /\ \A o \in Targets :
               omode[o] = "EDIT" => hist.omode[o] = "EDIT"

====
